---- MODULE Spec2Model ----
(***************************************************************************)
(* Fire separation clearance rule engine (backend/fire_clearance.py).      *)
(*                                                                         *)
(* FireClearanceEngine.compute_clearance takes a ClearanceRequest, the     *)
(* candidate rule rows returned by the rule store and a debug flag, and    *)
(* returns a ClearanceResponse.  The engine is modelled as operators that  *)
(* follow the Python code statement by statement; the state machine draws  *)
(* the inputs from bounded sets and applies the handler to them.           *)
(*                                                                         *)
(* Representation                                                          *)
(*   - JSON objects (conditions_json, result_json) are functions from key  *)
(*     names to values; a key that is absent from the object is absent     *)
(*     from DOMAIN.  The rows are taken after json.loads.                  *)
(*   - JSON arrays that the code only tests for membership (material_in,   *)
(*     insulation_class_in, layout_in, requires_wrap, insulation.wrap) are *)
(*     sets; arrays whose order or multiplicity reaches the response       *)
(*     (must_have, sources, conditions_unmet, reasons) are sequences.      *)
(*   - DN is counted in steps of 100 (DN 200 is 2) and clamp_spacing_m in  *)
(*     steps of 0.75 m (1.5 m is 2).                                       *)
(*   - Python None is None (the empty tuple) where the other values are    *)
(*     records, and the string "None" where the other values are strings.  *)
(*                                                                         *)
(* The engine runs (Spec, RepeatSpec, EvalSpec) apply the engine to a      *)
(* request and a candidate list directly; store and invocations are idle.  *)
(* The endpoint runs (ApiSpec, FaultSpec, ConcSpec) follow the invocations *)
(* of POST /fire/clearance/compute in invocations, each from the JSON body *)
(* over validation and the query on the rule store to the HTTP outcome.    *)
(***************************************************************************)
EXTENDS Integers, Sequences, FiniteSets, TLC

VARIABLES request, rules, debug, responses, evaluation, store, invocations,
          documents, document_sections, files, tasks, uploads

\* the state of the document service: the two tables, the upload directory,
\* the runs of process_document and the uploads answered so far
server_vars == <<documents, document_sections, files, tasks, uploads>>

vars == <<request, rules, debug, responses, evaluation, store, invocations,
          documents, document_sections, files, tasks, uploads>>

\* no document has been uploaded
ServerIdle ==
    /\ documents = <<>>
    /\ document_sections = {}
    /\ files = <<>>
    /\ tasks = <<>>
    /\ uploads = <<>>

(***************************************************************************)
(* Bounds of the model.                                                    *)
(***************************************************************************)
\* longest candidate rule list
MaxRules == 3
\* largest nominal diameter of a request (steps of 100)
MaxDN == 3
\* largest bundle_count of a request
MaxBundle == 3
\* largest clamp spacing of a request (steps of 0.75 m)
MaxClamp == 3
\* invocations of compute_clearance on one input
MaxCalls == 2

(***************************************************************************)
(* Values                                                                  *)
(***************************************************************************)
None == <<>>

NoneStr == "None"

\* rules.approval_id is NULL (None in Python, falsy); SERIAL ids start at 1
NoApproval == 0

Materials == {"stainless_steel", "copper"}

InsulationClasses == {"A2", "B"}

Layouts == {"parallel", "bundled"}

Wraps == {"metal_wrap_Z", "metal_wrap_Y", "ceramic_wrap"}

Jurisdictions == {"BY", "BW"}

\* dict.get(key, default)
Get(d, key, default) == IF key \in DOMAIN d THEN d[key] ELSE default

\* str.startswith('metal_wrap_') over the identifiers of the model
startswith_metal_wrap(condition) == condition \in {"metal_wrap_Z", "metal_wrap_Y"}

(***************************************************************************)
(* ClearanceRequest: the fields the engine reads, and context.jurisdiction *)
(***************************************************************************)
Requests ==
    [ material : Materials,
      DN : 1..MaxDN,
      insulation : [class_type : InsulationClasses, wrap : SUBSET Wraps],
      layout : Layouts,
      bundle_count : 1..MaxBundle,
      mount : [clamp_spacing_m : 1..MaxClamp],
      context : [jurisdiction : Jurisdictions] ]

(***************************************************************************)
(* Rule rows as _load_matching_rules returns them: the columns of rules    *)
(* joined with the approval's number, type and url.                        *)
(***************************************************************************)
NoConditions == <<>>

\* the approval-based rule of the seed data (0 mm with conditions)
AbpRule ==
    [ id |-> 1, approval_id |-> 1, scope |-> "pipe_to_pipe", priority |-> 100,
      approval_type |-> "AbP", approval_number |-> "ABP-2024-INOX-001",
      approval_url |-> "https://www.dibt.de/de/zulassungen/abp-2024-inox-001",
      conditions_json |->
        [ material_in |-> {"stainless_steel"},
          DN_max |-> 2,
          insulation_class_in |-> {"A1", "A2"},
          layout_in |-> {"parallel"},
          bundle_count_max |-> 2,
          clamp_spacing_m_max |-> 2,
          requires_wrap |-> {"metal_wrap_Z"} ],
      result_json |->
        [ min_clearance_mm |-> 0,
          status |-> "zulässig",
          must_have |-> <<"metal_wrap_Z">>,
          notes |-> "0 mm zulässig bis DN 200 mit A1/A2 Dämmung und Metallummantelung Z.",
          source |-> [ type |-> "AbP", number |-> "ABP-2024-INOX-001",
                       anchor |-> "sec-3.2",
                       url |-> "https://www.dibt.de/de/zulassungen/abp-2024-inox-001#sec-3.2" ] ] ]

\* the MLAR fallback rule row of the seed data (no approval)
MlarRule ==
    [ id |-> 2, approval_id |-> NoApproval, scope |-> "pipe_to_pipe", priority |-> 10,
      approval_type |-> NoneStr, approval_number |-> NoneStr, approval_url |-> NoneStr,
      conditions_json |-> [ applies_if_no_abp_match |-> TRUE ],
      result_json |->
        [ min_clearance_mm |-> 50,
          status |-> "default",
          notes |-> "MLAR Standardregelung - 50mm Mindestabstand",
          source |-> [ type |-> "MLAR", ref |-> "Kapitel 3.2.1",
                       anchor |-> "mlar-3.2.1",
                       url |-> "https://www.mlar-brandschutz.de/kapitel-3.2.1" ] ] ]

\* an approval rule without any condition; its must_have names a wrap the
\* rule does not require and a requirement of another category
OpenRule ==
    [ id |-> 3, approval_id |-> 2, scope |-> "pipe_to_pipe", priority |-> 50,
      approval_type |-> "AbZ", approval_number |-> "Z-19.53-2411",
      approval_url |-> "https://www.dibt.de/de/zulassungen/z-19-53-2411",
      conditions_json |-> NoConditions,
      result_json |->
        [ min_clearance_mm |-> 25,
          status |-> "bedingt zulässig",
          must_have |-> <<"metal_wrap_Y", "ceramic_wrap">>,
          notes |-> "25 mm mit Metallummantelung Y" ] ]

\* a second rule of the same approval with the same clearance as OpenRule
TieRule ==
    [ id |-> 4, approval_id |-> 2, scope |-> "pipe_to_pipe", priority |-> 50,
      approval_type |-> "AbZ", approval_number |-> "Z-19.53-2411",
      approval_url |-> "https://www.dibt.de/de/zulassungen/z-19-53-2411",
      conditions_json |-> [ DN_max |-> 2 ],
      result_json |->
        [ min_clearance_mm |-> 25,
          status |-> "zulässig",
          must_have |-> <<"metal_wrap_Y">>,
          notes |-> "25 mm bis DN 200",
          source |-> [ anchor |-> "sec-4.1", ref |-> "Abschnitt 4.1" ] ] ]

\* an approval rule stricter than the MLAR default, without must_have and notes
StrictRule ==
    [ id |-> 5, approval_id |-> 3, scope |-> "pipe_to_pipe", priority |-> 80,
      approval_type |-> "ETA", approval_number |-> "ETA-17/0081",
      approval_url |-> "https://www.dibt.de/de/zulassungen/eta-17-0081",
      conditions_json |-> [ material_in |-> {"stainless_steel", "copper"},
                            requires_wrap |-> {} ],
      result_json |->
        [ min_clearance_mm |-> 60,
          status |-> "nicht zulässig" ] ]

\* a rule without approval and without conditions
PlainRule ==
    [ id |-> 6, approval_id |-> NoApproval, scope |-> "pipe_to_pipe", priority |-> 90,
      approval_type |-> NoneStr, approval_number |-> NoneStr, approval_url |-> NoneStr,
      conditions_json |-> NoConditions,
      result_json |->
        [ min_clearance_mm |-> 75,
          status |-> "zulässig",
          must_have |-> <<"metal_wrap_Z">>,
          notes |-> "75 mm ohne Zulassung" ] ]

RuleCatalogue == {AbpRule, MlarRule, OpenRule, TieRule, StrictRule, PlainRule}

\* candidate lists: rows of the rules table, each row (primary key id) once
RECURSIVE ListsOver(_, _)
ListsOver(S, n) ==
    IF n = 0 THEN {<<>>}
    ELSE LET shorter == ListsOver(S, n - 1)
         IN  shorter \cup
             { Append(l, r) : l \in {x \in shorter : Len(x) = n - 1},
                              r \in S } 

Distinct(l) == \A i, j \in 1..Len(l) : i # j => l[i].id # l[j].id

CandidateLists == { l \in ListsOver(RuleCatalogue, MaxRules) : Distinct(l) }

(***************************************************************************)
(* FireClearanceEngine._evaluate_rule                                      *)
(***************************************************************************)
\* one entry of reasons per failing check, in the order of the checks
Reason(failed, text) == IF failed THEN <<text>> ELSE <<>>

ClearanceSource(rule, result_data) ==
    LET src == Get(result_data, "source", <<>>)
    IN  [ type |-> Get(rule, "approval_type", "Rule"),
          number |-> Get(rule, "approval_number", NoneStr),
          anchor |-> Get(src, "anchor", "rule-" \o ToString(rule.id)),
          url |-> Get(rule, "approval_url", "#"),
          ref |-> Get(src, "ref", NoneStr) ]

\* a ceiling mutated to be exclusive
above_or_at(value, ceiling) == value >= ceiling

\* request value > ceiling: the comparison of the DN, bundle count and clamp
\* spacing checks
above(value, ceiling) == value > ceiling

\* an evaluation that leaves requires_wrap unchecked
evaluate_rule_without_wrap_check(rule, req) ==
    LET conditions == Get(rule, "conditions_json", <<>>)
        result_data == Get(rule, "result_json", <<>>)
        has(key) == key \in DOMAIN conditions
        all_reasons ==
            Reason(has("material_in") /\ req.material \notin conditions["material_in"],
                   "Material nicht in erlaubten Materialien")
            \o Reason(has("DN_max") /\ above(req.DN, conditions["DN_max"]),
                      "DN > max erlaubte")
            \o Reason(has("insulation_class_in")
                          /\ req.insulation.class_type \notin conditions["insulation_class_in"],
                      "Dämmklasse nicht erlaubt")
            \o Reason(has("layout_in") /\ req.layout \notin conditions["layout_in"],
                      "Layout nicht erlaubt")
            \o Reason(has("bundle_count_max")
                          /\ above(req.bundle_count, conditions["bundle_count_max"]),
                      "Bündelanzahl > max")
            \o Reason(has("clamp_spacing_m_max")
                          /\ above(req.mount.clamp_spacing_m, conditions["clamp_spacing_m_max"]),
                      "Befestigungsabstand > max")
    IN  [ matches |-> all_reasons = <<>>,
          reasons |-> all_reasons,
          min_clearance_mm |-> Get(result_data, "min_clearance_mm", 0),
          status |-> Get(result_data, "status", "unknown"),
          must_have |-> Get(result_data, "must_have", <<>>),
          notes |-> Get(result_data, "notes", ""),
          source |-> ClearanceSource(rule, result_data) ]

\* an evaluation that stops at the first condition that fails
evaluate_rule_short_circuit(rule, req) ==
    LET conditions == Get(rule, "conditions_json", <<>>)
        result_data == Get(rule, "result_json", <<>>)
        has(key) == key \in DOMAIN conditions
        all_reasons ==
            Reason(has("material_in") /\ req.material \notin conditions["material_in"],
                   "Material nicht in erlaubten Materialien")
            \o Reason(has("DN_max") /\ above(req.DN, conditions["DN_max"]),
                      "DN > max erlaubte")
            \o Reason(has("insulation_class_in")
                          /\ req.insulation.class_type \notin conditions["insulation_class_in"],
                      "Dämmklasse nicht erlaubt")
            \o Reason(has("layout_in") /\ req.layout \notin conditions["layout_in"],
                      "Layout nicht erlaubt")
            \o Reason(has("bundle_count_max")
                          /\ above(req.bundle_count, conditions["bundle_count_max"]),
                      "Bündelanzahl > max")
            \o Reason(has("clamp_spacing_m_max")
                          /\ above(req.mount.clamp_spacing_m, conditions["clamp_spacing_m_max"]),
                      "Befestigungsabstand > max")
            \o Reason(has("requires_wrap")
                          /\ ~ (conditions["requires_wrap"] \subseteq req.insulation.wrap),
                      "Fehlende Ummantelung")
    IN  [ matches |-> all_reasons = <<>>,
          reasons |-> IF all_reasons = <<>> THEN <<>> ELSE <<all_reasons[1]>>,
          min_clearance_mm |-> Get(result_data, "min_clearance_mm", 0),
          status |-> Get(result_data, "status", "unknown"),
          must_have |-> Get(result_data, "must_have", <<>>),
          notes |-> Get(result_data, "notes", ""),
          source |-> ClearanceSource(rule, result_data) ]

evaluate_rule(rule, req) ==
    LET conditions == Get(rule, "conditions_json", <<>>)
        result_data == Get(rule, "result_json", <<>>)
        has(key) == key \in DOMAIN conditions
        material_fails ==
            has("material_in") /\ req.material \notin conditions["material_in"]
        DN_fails ==
            has("DN_max") /\ above(req.DN, conditions["DN_max"])
        class_fails ==
            /\ has("insulation_class_in")
            /\ req.insulation.class_type \notin conditions["insulation_class_in"]
        layout_fails ==
            has("layout_in") /\ req.layout \notin conditions["layout_in"]
        bundle_fails ==
            has("bundle_count_max") /\ above(req.bundle_count, conditions["bundle_count_max"])
        clamp_fails ==
            /\ has("clamp_spacing_m_max")
            /\ above(req.mount.clamp_spacing_m, conditions["clamp_spacing_m_max"])
        wrap_fails ==
            /\ has("requires_wrap")
            /\ ~ \A wrap \in conditions["requires_wrap"] : wrap \in req.insulation.wrap
    IN  [ matches |-> ~ ( \/ material_fails \/ DN_fails \/ class_fails \/ layout_fails
                          \/ bundle_fails \/ clamp_fails \/ wrap_fails ),
          reasons |-> Reason(material_fails, "Material nicht in erlaubten Materialien")
                      \o Reason(DN_fails, "DN > max erlaubte")
                      \o Reason(class_fails, "Dämmklasse nicht erlaubt")
                      \o Reason(layout_fails, "Layout nicht erlaubt")
                      \o Reason(bundle_fails, "Bündelanzahl > max")
                      \o Reason(clamp_fails, "Befestigungsabstand > max")
                      \o Reason(wrap_fails, "Fehlende Ummantelung"),
          min_clearance_mm |-> Get(result_data, "min_clearance_mm", 0),
          status |-> Get(result_data, "status", "unknown"),
          must_have |-> Get(result_data, "must_have", <<>>),
          notes |-> Get(result_data, "notes", ""),
          source |-> ClearanceSource(rule, result_data) ]

(***************************************************************************)
(* FireClearanceEngine._get_mlar_fallback and _check_unmet_conditions      *)
(***************************************************************************)
\* no fallback at all
get_mlar_fallback_none(req) == None

\* a fallback that Bavaria alone has, with the texts of the real one
get_mlar_fallback_south(req) ==
    IF req.context.jurisdiction = "BY"
    THEN [ min_clearance_mm |-> 50,
           status |-> "default",
           notes |-> "MLAR Standardregelung - 50mm Mindestabstand für Rohrleitungen ohne spezifische Zulassung",
           source |-> [ type |-> "MLAR", number |-> NoneStr, anchor |-> "mlar-3.2.1",
                        url |-> "https://www.mlar-brandschutz.de/kapitel-3",
                        ref |-> "Kapitel 3.2.1 - Mindestabstände für Rohrleitungen" ] ]
    ELSE None

\* a fallback that exists for one jurisdiction only
get_mlar_fallback_by_only(req) ==
    IF req.context.jurisdiction = "BY"
    THEN [ min_clearance_mm |-> 50,
           status |-> "default",
           notes |-> "MLAR Standardregelung",
           source |-> [ type |-> "MLAR", number |-> NoneStr, anchor |-> "mlar-3.2.1",
                        url |-> "https://www.mlar-brandschutz.de/kapitel-3",
                        ref |-> "Kapitel 3.2.1 - Mindestabstände für Rohrleitungen" ] ]
    ELSE None

get_mlar_fallback(req) ==
    [ min_clearance_mm |-> 50,
      status |-> "default",
      notes |-> "MLAR Standardregelung - 50mm Mindestabstand für Rohrleitungen ohne spezifische Zulassung",
      source |-> [ type |-> "MLAR",
                   number |-> NoneStr,
                   anchor |-> "mlar-3.2.1",
                   url |-> "https://www.mlar-brandschutz.de/kapitel-3",
                   ref |-> "Kapitel 3.2.1 - Mindestabstände für Rohrleitungen" ] ]

\* f"Metallummantelung {condition} erforderlich"
UnmetText(condition) == "Metallummantelung " \o condition \o " erforderlich"

RECURSIVE check_unmet_conditions(_, _)
check_unmet_conditions(required_conditions, req) ==
    IF required_conditions = <<>> THEN <<>>
    ELSE LET condition == Head(required_conditions)
             rest == check_unmet_conditions(Tail(required_conditions), req)
         IN  IF startswith_metal_wrap(condition) /\ condition \notin req.insulation.wrap
             THEN <<UnmetText(condition)>> \o rest
             ELSE rest

(***************************************************************************)
(* FireClearanceEngine.compute_clearance                                   *)
(***************************************************************************)
\* a rule loop that ends at the first approval-linked rule that does not match
RECURSIVE approval_results_break(_, _)
approval_results_break(rule_list, req) ==
    IF rule_list = <<>> THEN <<>>
    ELSE LET rule == Head(rule_list)
             result == evaluate_rule(rule, req)
         IN  IF rule.approval_id = NoApproval
             THEN approval_results_break(Tail(rule_list), req)
             ELSE IF result.matches
                  THEN <<result>> \o approval_results_break(Tail(rule_list), req)
                  ELSE <<>>

\* only the first approval-linked rule that matches: with the list in priority
\* order, the matching rule of the highest priority
approval_results_top_priority(rule_list, req) ==
    LET hits == SelectSeq(rule_list,
                          LAMBDA rule : /\ rule.approval_id # NoApproval
                                        /\ evaluate_rule(rule, req).matches)
    IN  IF hits = <<>> THEN <<>> ELSE <<evaluate_rule(hits[1], req)>>

\* the results of all rules that match, approval-linked or not
RECURSIVE approval_results_unfiltered(_, _)
approval_results_unfiltered(rule_list, req) ==
    IF rule_list = <<>> THEN <<>>
    ELSE LET result == evaluate_rule(Head(rule_list), req)
             rest == approval_results_unfiltered(Tail(rule_list), req)
         IN  IF result.matches THEN <<result>> \o rest ELSE rest

\* Step 2: the results of the approval-linked rules that match, in list order
RECURSIVE approval_results(_, _)
approval_results(rule_list, req) ==
    IF rule_list = <<>> THEN <<>>
    ELSE LET rule == Head(rule_list)
             result == evaluate_rule(rule, req)
             rest == approval_results(Tail(rule_list), req)
         IN  IF rule.approval_id # NoApproval /\ result.matches
             THEN <<result>> \o rest
             ELSE rest

\* the entry with the smallest key instead of the largest
best_result_min(results) ==
    LET i == CHOOSE i \in 1..Len(results) :
                 \A j \in 1..Len(results) :
                     results[i].min_clearance_mm <= results[j].min_clearance_mm
    IN  results[i]

\* the last of the entries with the largest key instead of the first
best_result_last(results) ==
    LET i == CHOOSE i \in 1..Len(results) :
                 /\ \A j \in 1..Len(results) :
                        results[j].min_clearance_mm <= results[i].min_clearance_mm
                 /\ \A j \in (i + 1)..Len(results) :
                        results[j].min_clearance_mm < results[i].min_clearance_mm
    IN  results[i]

\* the first entry, whatever its key
best_result_first(results) == results[1]

\* max(approval_results, key=lambda x: x['min_clearance_mm']): the first of
\* the entries with the largest key
best_result(results) ==
    LET i == CHOOSE i \in 1..Len(results) :
                 /\ \A j \in 1..Len(results) :
                        results[j].min_clearance_mm <= results[i].min_clearance_mm
                 /\ \A j \in 1..(i - 1) :
                        results[j].min_clearance_mm < results[i].min_clearance_mm
    IN  results[i]

\* all_conditions.extend(result.get('must_have', [])) over the results
RECURSIVE all_conditions(_)
all_conditions(results) ==
    IF results = <<>> THEN <<>>
    ELSE Get(Head(results), "must_have", <<>>) \o all_conditions(Tail(results))

\* only the source of the result that decides the clearance
all_sources_best_only(results) == <<best_result(results).source>>

\* only the sources that carry a reference text
all_sources_with_ref(results) ==
    SelectSeq([ i \in 1..Len(results) |-> results[i].source ],
              LAMBDA src : src.ref # NoneStr)

\* all_sources.append(result['source']) over the results
all_sources(results) == [ i \in 1..Len(results) |-> results[i].source ]

\* a trace that is built whatever the flag says
debug_trace_always(dbg, rule_list, results) ==
    [ rules_loaded |-> Len(rule_list),
      rules |-> rule_list,
      approval_matches |-> Len(results) ]

\* a trace dict shared by the invocations, whose counters accumulate
debug_trace_shared(dbg, rule_list, results) ==
    LET earlier == IF responses = <<>> THEN 0
                   ELSE responses[Len(responses)].debug_info.approval_matches
    IN  IF dbg
        THEN [ rules_loaded |-> Len(rule_list),
               rules |-> rule_list,
               approval_matches |-> earlier + Len(results) ]
        ELSE None

\* a trace that counts and lists the approval-linked rules only
debug_trace_approved_only(dbg, rule_list, results) ==
    LET linked == SelectSeq(rule_list, LAMBDA rule : rule.approval_id # NoApproval)
    IN  IF dbg
        THEN [ rules_loaded |-> Len(linked),
               rules |-> linked,
               approval_matches |-> Len(results) ]
        ELSE None

\* debug_info: {} filled with rules_loaded, rules, approval_matches, or None
debug_trace(dbg, rule_list, results) ==
    IF dbg
    THEN [ rules_loaded |-> Len(rule_list),
           rules |-> rule_list,
           approval_matches |-> Len(results) ]
    ELSE None

compute_clearance(req, rule_list, dbg) ==
    LET results == approval_results(rule_list, req)
        debug_info == debug_trace(dbg, rule_list, results)
    IN  IF results # <<>>
        THEN LET best == best_result(results)
             IN  [ min_clearance_mm |-> best.min_clearance_mm,
                   status |-> best.status,
                   conditions_unmet |->
                       check_unmet_conditions(all_conditions(results), req),
                   sources |-> all_sources(results),
                   notes |-> Get(best, "notes", ""),
                   debug_info |-> debug_info ]
        ELSE LET mlar_rule == get_mlar_fallback(req)
             IN  IF mlar_rule # None
                 THEN [ min_clearance_mm |-> mlar_rule.min_clearance_mm,
                        status |-> "default",
                        conditions_unmet |-> <<>>,
                        sources |-> <<mlar_rule.source>>,
                        notes |-> "MLAR Standardregelung angewendet - keine spezifische Zulassung gefunden.",
                        debug_info |-> debug_info ]
                 ELSE [ min_clearance_mm |-> 100,
                        status |-> "nicht zulässig",
                        conditions_unmet |-> <<"Keine anwendbare Regel gefunden">>,
                        sources |-> <<>>,
                        notes |-> "Keine anwendbare Brandschutzregel für diese Konfiguration gefunden. Bitte Einzelfallprüfung durchführen.",
                        debug_info |-> debug_info ]

(***************************************************************************)
(* The state machine.  request, rules and debug are the inputs of the      *)
(* invocations; responses holds the responses returned so far for them.    *)
(***************************************************************************)
\* no rule store is attached to the engine runs
NoStore == [ rows |-> {}, available |-> TRUE ]

\* the requests of the engine runs: the fields that only AbpRule constrains
\* are held at values AbpRule accepts (EvalSpec varies them)
EngineRequests ==
    { r \in Requests : /\ r.material = "stainless_steel"
                       /\ r.insulation.class_type = "A2"
                       /\ r.layout = "parallel"
                       /\ r.bundle_count = 1
                       /\ r.mount.clamp_spacing_m = 1 }

Init ==
    /\ request \in EngineRequests
    /\ rules \in CandidateLists
    /\ debug \in BOOLEAN
    /\ responses = <<>>
    /\ evaluation = <<>>
    /\ store = NoStore
    /\ invocations = <<>>
    /\ ServerIdle

\* POST /fire/clearance/compute: one invocation of compute_clearance on the
\* request, the loaded rules and the flag
Invoke(calls) ==
    /\ Len(responses) < calls
    /\ responses' = Append(responses, compute_clearance(request, rules, debug))
    /\ UNCHANGED <<request, rules, debug, evaluation, store, invocations, server_vars>>

ComputeClearance == Invoke(1)

Next == ComputeClearance

Spec == Init /\ [][Next]_vars

\* the same request sent again: up to MaxCalls invocations on one input
RepeatClearance == Invoke(MaxCalls)

RepeatNext == RepeatClearance

RepeatSpec == Init /\ [][RepeatNext]_vars

(***************************************************************************)
(* Evaluation of one rule: the conditions of the rule are AbpRule's,       *)
(* restricted to every subset of their keys; the request varies in every   *)
(* field a condition reads.                                                *)
(***************************************************************************)
ConditionKeys == DOMAIN AbpRule.conditions_json

Restrict(f, keys) == [ k \in keys |-> f[k] ]

EvalRules ==
    { [ AbpRule EXCEPT !.conditions_json = Restrict(@, keys) ] :
          keys \in SUBSET ConditionKeys }

EvalRequests ==
    { r \in Requests : /\ r.context.jurisdiction = "BY"
                       /\ r.insulation.wrap \subseteq {"metal_wrap_Z", "metal_wrap_Y"} }

EvalInit ==
    /\ request \in EvalRequests
    /\ rules \in { <<r>> : r \in EvalRules }
    /\ debug = FALSE
    /\ responses = <<>>
    /\ evaluation = <<>>
    /\ store = NoStore
    /\ invocations = <<>>
    /\ ServerIdle

\* one call of _evaluate_rule on the rule and the request
EvaluateRule ==
    /\ evaluation = <<>>
    /\ evaluation' = <<evaluate_rule(rules[1], request)>>
    /\ UNCHANGED <<request, rules, debug, responses, store, invocations, server_vars>>

EvalNext == EvaluateRule

EvalSpec == EvalInit /\ [][EvalNext]_vars

(***************************************************************************)
(* Notions the properties are stated with                                  *)
(***************************************************************************)
Done == responses # <<>>

Responses == { responses[i] : i \in 1..Len(responses) }

\* the fields of a response that carry the decision
Core(resp) ==
    [ min_clearance_mm |-> resp.min_clearance_mm,
      status |-> resp.status,
      conditions_unmet |-> resp.conditions_unmet,
      sources |-> resp.sources,
      notes |-> resp.notes ]

ApprovalLinked(rule) == rule.approval_id # NoApproval

\* every condition key the rule specifies holds for the request
ConditionsHold(rule, req) ==
    LET c == rule.conditions_json
    IN  /\ "material_in" \in DOMAIN c => req.material \in c.material_in
        /\ "DN_max" \in DOMAIN c => req.DN <= c.DN_max
        /\ "insulation_class_in" \in DOMAIN c =>
               req.insulation.class_type \in c.insulation_class_in
        /\ "layout_in" \in DOMAIN c => req.layout \in c.layout_in
        /\ "bundle_count_max" \in DOMAIN c => req.bundle_count <= c.bundle_count_max
        /\ "clamp_spacing_m_max" \in DOMAIN c =>
               req.mount.clamp_spacing_m <= c.clamp_spacing_m_max
        /\ "requires_wrap" \in DOMAIN c => c.requires_wrap \subseteq req.insulation.wrap

\* what the rule's result declares
RuleClearance(rule) == Get(rule.result_json, "min_clearance_mm", 0)

RuleStatus(rule) == Get(rule.result_json, "status", "unknown")

RuleNotes(rule) == Get(rule.result_json, "notes", "")

RuleMustHave(rule) ==
    LET m == Get(rule.result_json, "must_have", <<>>)
    IN  { m[i] : i \in 1..Len(m) }

\* the approval-linked candidate rules that match the request, in list order
IsMatch(rule) == ApprovalLinked(rule) /\ ConditionsHold(rule, request)

Matching == SelectSeq(rules, IsMatch)

MatchingSet == { Matching[i] : i \in 1..Len(Matching) }

SetMax(S) == CHOOSE m \in S : \A x \in S : x <= m

(***************************************************************************)
(* C4: _evaluate_rule reports matches = true exactly when every condition  *)
(* key the rule specifies holds for the request (ceilings inclusive,       *)
(* absent keys never exclude, a rule without condition keys matches every  *)
(* request).                                                               *)
(***************************************************************************)
C4_MatchesIffConditionsHold ==
    evaluation # <<>> =>
        /\ evaluation[1].matches <=> ConditionsHold(rules[1], request)
        /\ rules[1].conditions_json = NoConditions => evaluation[1].matches
        /\ ( /\ "DN_max" \notin DOMAIN rules[1].conditions_json
             /\ evaluation[1].matches )
           => \A dn \in 1..MaxDN :
                  evaluate_rule(rules[1], [request EXCEPT !.DN = dn]).matches

\* a rule with all seven keys matched at its three ceilings
C4_Witness ==
    /\ evaluation # <<>>
    /\ DOMAIN rules[1].conditions_json = ConditionKeys
    /\ request.DN = rules[1].conditions_json.DN_max
    /\ request.bundle_count = rules[1].conditions_json.bundle_count_max
    /\ request.mount.clamp_spacing_m = rules[1].conditions_json.clamp_spacing_m_max
    /\ evaluation[1].matches

(***************************************************************************)
(* C1: when at least one approval-linked candidate rule matches, the       *)
(* response's min_clearance_mm is the largest min_clearance_mm among the   *)
(* matching approval-linked rules.                                         *)
(***************************************************************************)
C1_StrictestClearance ==
    Matching # <<>> =>
        \A resp \in Responses :
            resp.min_clearance_mm = SetMax({ RuleClearance(r) : r \in MatchingSet })

\* two rules with 0 and 25 match and the response says 25
C1_Witness ==
    /\ Done
    /\ \E a, b \in MatchingSet : RuleClearance(a) = 0 /\ RuleClearance(b) = 25
    /\ \A r \in MatchingSet : RuleClearance(r) <= 25
    /\ responses[1].min_clearance_mm = 25

(***************************************************************************)
(* C2: when approval-linked rules match, sources holds the source of every *)
(* matching rule, one entry per matching rule, in candidate-list order.    *)
(***************************************************************************)
C2_SourcesOfEveryMatch ==
    Matching # <<>> =>
        \A resp \in Responses :
            /\ Len(resp.sources) = Len(Matching)
            /\ \A i \in 1..Len(Matching) :
                   resp.sources[i] = ClearanceSource(Matching[i], Matching[i].result_json)

\* two rules with different sources match; the second one decides the
\* clearance and both sources are listed
C2_Witness ==
    /\ Done
    /\ Len(Matching) = 2
    /\ RuleClearance(Matching[1]) < RuleClearance(Matching[2])
    /\ Len(responses[1].sources) = 2
    /\ responses[1].sources[1] # responses[1].sources[2]
    /\ responses[1].sources[1].number = Matching[1].approval_number
    /\ responses[1].sources[2].number = Matching[2].approval_number

(***************************************************************************)
(* C3: when no approval-linked candidate rule matches, the response is the *)
(* MLAR default: 50 mm, status "default", no unmet conditions and exactly  *)
(* one source, of type MLAR, whatever the jurisdiction and the rules.      *)
(***************************************************************************)
C3_MlarDefault ==
    Matching = <<>> =>
        \A resp \in Responses :
            /\ resp.min_clearance_mm = 50
            /\ resp.status = "default"
            /\ resp.conditions_unmet = <<>>
            /\ Len(resp.sources) = 1
            /\ resp.sources[1].type = "MLAR"

\* the seeded approval rule fails on the missing wrap only, next to a rule
\* without approval, in a jurisdiction other than BY
C3_Witness ==
    /\ Done
    /\ Matching = <<>>
    /\ \E i, j \in 1..Len(rules) : rules[i] = AbpRule /\ rules[j] = PlainRule
    /\ request.material = "stainless_steel"
    /\ request.DN <= 2
    /\ "metal_wrap_Z" \notin request.insulation.wrap
    /\ request.context.jurisdiction = "BW"
    /\ responses[1].min_clearance_mm = 50

(***************************************************************************)
(* C5: when approval rules match, conditions_unmet is the union over all   *)
(* matching rules of their must_have requirements that the request does    *)
(* not satisfy: each such requirement is reported, and reported once; a    *)
(* requirement in the request's wrap set is not reported.                  *)
(***************************************************************************)
UnmetRequirements ==
    { c \in UNION { RuleMustHave(r) : r \in MatchingSet } :
          c \notin request.insulation.wrap }

C5_UnmetIsUnionOfMustHave ==
    Matching # <<>> =>
        \A resp \in Responses :
            LET unmet == resp.conditions_unmet
            IN  /\ { unmet[i] : i \in 1..Len(unmet) }
                       = { UnmetText(c) : c \in UnmetRequirements }
                /\ \A i, j \in 1..Len(unmet) : i # j => unmet[i] # unmet[j]

(***************************************************************************)
(* C6: status and notes come from the rule that supplies min_clearance_mm, *)
(* and among several matching rules with the largest min_clearance_mm this *)
(* is the first one in candidate-list order.                               *)
(***************************************************************************)
FirstStrictest ==
    CHOOSE i \in 1..Len(Matching) :
        /\ \A j \in 1..Len(Matching) :
               RuleClearance(Matching[j]) <= RuleClearance(Matching[i])
        /\ \A j \in 1..(i - 1) :
               RuleClearance(Matching[j]) # RuleClearance(Matching[i])

C6_FirstSeenWins ==
    Matching # <<>> =>
        \A resp \in Responses :
            /\ resp.min_clearance_mm = RuleClearance(Matching[FirstStrictest])
            /\ resp.status = RuleStatus(Matching[FirstStrictest])
            /\ resp.notes = RuleNotes(Matching[FirstStrictest])

\* two matching rules tie on the largest clearance with different status
\* and notes, after a rule with a smaller clearance
C6_Witness ==
    /\ Done
    /\ Len(Matching) = 3
    /\ RuleClearance(Matching[1]) < RuleClearance(Matching[2])
    /\ RuleClearance(Matching[2]) = RuleClearance(Matching[3])
    /\ RuleStatus(Matching[2]) # RuleStatus(Matching[3])
    /\ RuleNotes(Matching[2]) # RuleNotes(Matching[3])
    /\ responses[1].status = RuleStatus(Matching[2])

(***************************************************************************)
(* C7: rules without approval are never evaluated: removing them from the  *)
(* candidate list, or adding one anywhere in it, leaves min_clearance_mm,  *)
(* status, conditions_unmet, sources and notes of the response unchanged.  *)
(***************************************************************************)
InsertAt(l, p, r) == SubSeq(l, 1, p - 1) \o <<r>> \o SubSeq(l, p, Len(l))

C7_UnapprovedRulesIgnored ==
    \A resp \in Responses :
        /\ Core(resp)
               = Core(compute_clearance(request, SelectSeq(rules, ApprovalLinked), debug))
        /\ \A r \in RuleCatalogue :
               ( /\ ~ ApprovalLinked(r)
                 /\ \A i \in 1..Len(rules) : rules[i] # r )
               => \A p \in 1..(Len(rules) + 1) :
                      Core(compute_clearance(request, InsertAt(rules, p, r), debug))
                          = Core(resp)

\* the seeded MLAR row and a condition-free rule without approval stand
\* before a matching approval rule
C7_Witness ==
    /\ Done
    /\ Len(rules) = 3
    /\ rules[1] = PlainRule
    /\ rules[2] = MlarRule
    /\ Len(Matching) = 1
    /\ responses[1].min_clearance_mm = RuleClearance(rules[3])

(***************************************************************************)
(* C8: the debug flag never influences the decision: the response has the  *)
(* same min_clearance_mm, status, conditions_unmet, sources and notes as   *)
(* the response to the same request and rules under the other value of the *)
(* flag, and debug_info is null when debug is false.                       *)
(***************************************************************************)
C8_DebugOnlyObserves ==
    \A resp \in Responses :
        /\ Core(resp) = Core(compute_clearance(request, rules, ~ debug))
        /\ ~ debug => resp.debug_info = None
        /\ compute_clearance(request, rules, FALSE).debug_info = None

\* a debug run on the approval path that carries a trace
C8_Witness ==
    /\ Done
    /\ debug
    /\ Matching # <<>>
    /\ responses[1].debug_info # None
    /\ compute_clearance(request, rules, FALSE).debug_info = None

Without(l, p) == SubSeq(l, 1, p - 1) \o SubSeq(l, p + 1, Len(l))

StrictlyStrictest(p) ==
    /\ IsMatch(rules[p])
    /\ \A q \in 1..Len(rules) :
           (q # p /\ IsMatch(rules[q])) => RuleClearance(rules[q]) < RuleClearance(rules[p])

C10_AddedStricterRuleDecides ==
    \A resp \in Responses :
        \A p \in 1..Len(rules) :
            StrictlyStrictest(p) => resp.min_clearance_mm = RuleClearance(rules[p])

\* the stricter rule stands last, behind two matching rules of which the
\* first decided the response to the list without it
C10_Witness ==
    /\ Done
    /\ Len(rules) = 3
    /\ Len(Matching) = 3
    /\ StrictlyStrictest(3)
    /\ compute_clearance(request, Without(rules, 3), debug).min_clearance_mm
           = RuleClearance(rules[1])
    /\ RuleClearance(rules[1]) < RuleClearance(rules[3])
    /\ responses[1].min_clearance_mm = RuleClearance(rules[3])

\* the stricter rule is the only match, with a clearance below the MLAR
\* default that the list without it yields
C10_WitnessOnlyMatch ==
    /\ Done
    /\ \E p \in 1..Len(rules) :
           /\ StrictlyStrictest(p)
           /\ Len(Matching) = 1
           /\ compute_clearance(request, Without(rules, p), debug).status = "default"
           /\ RuleClearance(rules[p]) < 50
           /\ responses[1].min_clearance_mm = RuleClearance(rules[p])

(***************************************************************************)
(* The rule store: rows of the rules table with their validity, and the    *)
(* query of _load_matching_rules.                                          *)
(***************************************************************************)
\* NOW() of the query, and valid_to dates before and after it, in days;
\* a NULL valid_to is the empty tuple, a date the tuple of its day
Now == 2

NullDate == <<>>

Tomorrow == <<3>>

\* a row of the rules table: the rule with its valid_to column
StoreRow(rule, valid_to) == rule @@ ("valid_to" :> valid_to)

\* result_json holding the JSON value null
JsonNull == [ json |-> "null" ]

\* an approval rule whose result names neither a clearance nor a status
NoStatusRule ==
    [ id |-> 7, approval_id |-> 4, scope |-> "pipe_to_pipe", priority |-> 70,
      approval_type |-> "AbP", approval_number |-> "ABP-2023-CU-007",
      approval_url |-> "https://www.dibt.de/de/zulassungen/abp-2023-cu-007",
      conditions_json |-> [ DN_max |-> 2 ],
      result_json |-> [ notes |-> "siehe Zulassung" ] ]

\* an approval rule whose result carries a negative clearance
NegativeRule ==
    [ id |-> 8, approval_id |-> 4, scope |-> "pipe_to_pipe", priority |-> 60,
      approval_type |-> "AbP", approval_number |-> "ABP-2023-CU-007",
      approval_url |-> "https://www.dibt.de/de/zulassungen/abp-2023-cu-007",
      conditions_json |-> [ requires_wrap |-> {"metal_wrap_Z"} ],
      result_json |-> [ min_clearance_mm |-> -5, status |-> "zulässig" ] ]

\* an approval rule that forbids the configuration: 100 mm, nicht zulässig
FloorRule ==
    [ id |-> 9, approval_id |-> 5, scope |-> "pipe_to_pipe", priority |-> 40,
      approval_type |-> "AbZ", approval_number |-> "Z-19.17-1194",
      approval_url |-> "https://www.dibt.de/de/zulassungen/z-19-17-1194",
      conditions_json |-> [ DN_max |-> 3 ],
      result_json |-> [ min_clearance_mm |-> 100, status |-> "nicht zulässig",
                        notes |-> "Einzelfallprüfung" ] ]

\* a rule of an approval whose url column is NULL
NoUrlRule ==
    [ id |-> 10, approval_id |-> 6, scope |-> "pipe_to_pipe", priority |-> 30,
      approval_type |-> "ETA", approval_number |-> "ETA-11/0343",
      approval_url |-> NoneStr,
      conditions_json |-> [ requires_wrap |-> {"metal_wrap_Y"} ],
      result_json |-> [ min_clearance_mm |-> 10, status |-> "zulässig" ] ]

\* an approval rule whose result_json is the JSON value null
NullResultRule ==
    [ id |-> 11, approval_id |-> 1, scope |-> "pipe_to_pipe", priority |-> 20,
      approval_type |-> "AbP", approval_number |-> "ABP-2024-INOX-001",
      approval_url |-> "https://www.dibt.de/de/zulassungen/abp-2024-inox-001",
      conditions_json |-> [ DN_max |-> 1 ],
      result_json |-> JsonNull ]

\* the rows the seed data inserts
SeedRows == { StoreRow(AbpRule, Tomorrow), StoreRow(MlarRule, NullDate) }

\* texts are sequences of characters; a word without brackets, quotes, commas
\* or blanks stands as one element
Quote == "\""

\* conditions_json->>'material_in': jsonb prints an array of strings as
\* ["a", "b"], with a comma and a blank between the elements
RECURSIVE jsonb_elements(_)
jsonb_elements(S) ==
    IF S = {} THEN <<>>
    ELSE LET x == CHOOSE y \in S : TRUE
         IN  <<Quote, x, Quote>> \o
             (IF S \ {x} = {} THEN <<>> ELSE <<",", " ">> \o jsonb_elements(S \ {x}))

jsonb_array_text(S) == <<"[">> \o jsonb_elements(S) \o <<"]">>

\* trim(text, chars): removes the longest prefix and suffix made of chars
RECURSIVE ltrim(_, _)
ltrim(text, chars) ==
    IF text # <<>> /\ Head(text) \in chars THEN ltrim(Tail(text), chars) ELSE text

RECURSIVE rtrim(_, _)
rtrim(text, chars) ==
    IF text # <<>> /\ text[Len(text)] \in chars
    THEN rtrim(SubSeq(text, 1, Len(text) - 1), chars)
    ELSE text

trim(text, chars) == rtrim(ltrim(text, chars), chars)

\* string_to_array(text, delimiter): the fields between the delimiters
RECURSIVE split_fields(_, _, _)
split_fields(text, delimiter, field) ==
    IF text = <<>> THEN <<field>>
    ELSE IF Len(text) >= Len(delimiter) /\ SubSeq(text, 1, Len(delimiter)) = delimiter
         THEN <<field>> \o
              split_fields(SubSeq(text, Len(delimiter) + 1, Len(text)), delimiter, <<>>)
         ELSE split_fields(Tail(text), delimiter, Append(field, Head(text)))

string_to_array(text, delimiter) ==
    IF text = <<>> THEN <<>> ELSE split_fields(text, delimiter, <<>>)

\* $1 = ANY(string_to_array(trim(conditions_json->>'material_in', '[]"'), '","')):
\* the text of a jsonb array separates its elements by ", ", so only the
\* text of a one-element array is split into that element
sql_material_any(material, material_in) ==
    LET fields == string_to_array(trim(jsonb_array_text(material_in),
                                       {"[", "]", Quote}),
                                  <<Quote, ",", Quote>>)
    IN  \E i \in DOMAIN fields : fields[i] = <<material>>

\* a WHERE clause without the test of valid_to
sql_where_any_validity(row, req) ==
    /\ row.scope = "pipe_to_pipe"
    /\ ( \/ "material_in" \notin DOMAIN row.conditions_json
         \/ sql_material_any(req.material, row.conditions_json["material_in"]) )
    /\ ( \/ "DN_max" \notin DOMAIN row.conditions_json
         \/ req.DN <= row.conditions_json["DN_max"] )

\* a WHERE clause that also wants valid_from reached and the approval in force
sql_where_in_force(row, req) ==
    /\ row.scope = "pipe_to_pipe"
    /\ (row.valid_to = NullDate \/ row.valid_to[1] > Now)
    /\ Get(row, "valid_from", NullDate) \in {NullDate} \cup { <<d>> : d \in 0..Now }
    /\ Get(row, "approval_valid_to", NullDate) \notin { <<d>> : d \in 0..Now }
    /\ ( \/ "material_in" \notin DOMAIN row.conditions_json
         \/ sql_material_any(req.material, row.conditions_json["material_in"]) )
    /\ ( \/ "DN_max" \notin DOMAIN row.conditions_json
         \/ req.DN <= row.conditions_json["DN_max"] )

\* the WHERE clause of the query
sql_where(row, req) ==
    /\ row.scope = "pipe_to_pipe"
    /\ (row.valid_to = NullDate \/ row.valid_to[1] > Now)
    /\ ( \/ "material_in" \notin DOMAIN row.conditions_json
         \/ sql_material_any(req.material, row.conditions_json["material_in"]) )
    /\ ( \/ "DN_max" \notin DOMAIN row.conditions_json
         \/ req.DN <= row.conditions_json["DN_max"] )

\* ORDER BY r.priority DESC: the order of rows of equal priority is not fixed
sql_order_by_priority(rows) ==
    { l \in ListsOver(rows, Cardinality(rows)) :
          /\ Len(l) = Cardinality(rows)
          /\ Distinct(l)
          /\ \A i, j \in 1..Len(l) : i < j => l[i].priority >= l[j].priority }

\* SELECT r.*, a.number, a.type, a.url: of the approval, its validity is not selected
select_columns(row) == [ k \in DOMAIN row \ {"approval_valid_to"} |-> row[k] ]

\* the row lists the query may return
load_matching_rules(rows, req) ==
    sql_order_by_priority({ select_columns(row) : row \in { r \in rows : sql_where(r, req) } })

(***************************************************************************)
(* POST /fire/clearance/compute: validation of the body as ClearanceRequest *)
(* and the try/except of compute_clearance.                                *)
(***************************************************************************)
RequiredFields == {"material", "DN", "insulation", "layout", "mount", "context"}

\* the pydantic model: required fields must be there, bundle_count defaults
\* to 1; no field carries a range or an enumeration
validate_request(body) ==
    IF RequiredFields \subseteq DOMAIN body
    THEN [ ok |-> TRUE,
           request |-> [ material |-> body.material,
                         DN |-> body.DN,
                         insulation |-> body.insulation,
                         layout |-> body.layout,
                         bundle_count |-> Get(body, "bundle_count", 1),
                         mount |-> body.mount,
                         context |-> body.context ] ]
    ELSE [ ok |-> FALSE, missing |-> RequiredFields \ DOMAIN body ]

\* what _evaluate_rule raises on: result_data.get on None, and a
\* ClearanceSource whose type or url is None
evaluate_raises(rule) ==
    \/ rule.result_json = JsonNull
    \/ Get(rule, "approval_type", "Rule") = NoneStr
    \/ Get(rule, "approval_url", "#") = NoneStr

\* an exception leaves the loop over the rules when an approval-linked rule
\* is evaluated
evaluation_raises(rule_list) ==
    \E i \in 1..Len(rule_list) :
        rule_list[i].approval_id # NoApproval /\ evaluate_raises(rule_list[i])

\* the handler turned an exception into the fallback response
on_exception_fallback(req, dbg) ==
    [ status_code |-> 200, response |-> compute_clearance(req, <<>>, dbg) ]

\* except Exception: raise HTTPException(status_code=500, ...)
on_exception(req, dbg) ==
    [ status_code |-> 500, detail |-> "Fehler bei der Berechnung" ]

\* steps 2 to 5 of compute_clearance inside its try block
evaluate_and_respond(req, rule_list, dbg) ==
    IF evaluation_raises(rule_list)
    THEN on_exception(req, dbg)
    ELSE [ status_code |-> 200, response |-> compute_clearance(req, rule_list, dbg) ]

NoOutcome == <<>>

\* an invocation of the endpoint that has received its body
Received(body, dbg) ==
    [ pc |-> "received", body |-> body, debug |-> dbg,
      request |-> None, rules |-> <<>>, outcome |-> NoOutcome ]

\* every invocation has its own connection, engine and local rules
loaded_rules_shared(i) == invocations[1].rules

loaded_rules(i) == invocations[i].rules

\* FastAPI parses the body before the handler runs: 422 when it fails
Validate(i) ==
    /\ invocations[i].pc = "received"
    /\ LET v == validate_request(invocations[i].body)
       IN  invocations' =
             [ invocations EXCEPT ![i] =
                 IF v.ok
                 THEN [ @ EXCEPT !.pc = "validated", !.request = v.request ]
                 ELSE [ @ EXCEPT !.pc = "done",
                                 !.outcome = [ status_code |-> 422,
                                               detail |-> v.missing ] ] ]
    /\ UNCHANGED <<request, rules, debug, responses, evaluation, store, server_vars>>

\* Step 1: rules = await self._load_matching_rules(request)
LoadRules(i) ==
    /\ invocations[i].pc = "validated"
    /\ IF store.available
       THEN \E l \in load_matching_rules(store.rows, invocations[i].request) :
                invocations' =
                    [ invocations EXCEPT ![i] = [ @ EXCEPT !.pc = "loaded", !.rules = l ] ]
       ELSE invocations' =
                [ invocations EXCEPT ![i] =
                    [ @ EXCEPT !.pc = "done",
                               !.outcome = on_exception(invocations[i].request,
                                                        invocations[i].debug) ] ]
    /\ UNCHANGED <<request, rules, debug, responses, evaluation, store, server_vars>>

\* Steps 2 to 5 and the return of the response
Respond(i) ==
    /\ invocations[i].pc = "loaded"
    /\ invocations' =
         [ invocations EXCEPT ![i] =
             [ @ EXCEPT !.pc = "done",
                        !.outcome = evaluate_and_respond(invocations[i].request,
                                                         loaded_rules(i),
                                                         invocations[i].debug) ] ]
    /\ UNCHANGED <<request, rules, debug, responses, evaluation, store, server_vars>>

\* one step of any invocation in flight
ValidateRequest == \E i \in 1..Len(invocations) : Validate(i)

LoadMatchingRules == \E i \in 1..Len(invocations) : LoadRules(i)

ReturnResponse == \E i \in 1..Len(invocations) : Respond(i)

ApiNext == ValidateRequest \/ LoadMatchingRules \/ ReturnResponse

\* the engine variables rest while the endpoint runs
EngineIdle ==
    /\ request = None
    /\ rules = <<>>
    /\ debug = FALSE
    /\ responses = <<>>
    /\ evaluation = <<>>

(***************************************************************************)
(* ApiSpec: one invocation; the body varies over values inside and outside *)
(* the declared ranges and enumerations, with and without DN and           *)
(* bundle_count; the store holds the seed rows, alone or with OpenRule.    *)
(***************************************************************************)
Drop(f, key) == [ k \in DOMAIN f \ {key} |-> f[k] ]

FullBodies ==
    [ material : Materials \cup {"wood"},
      DN : -1..MaxDN,
      insulation : [ class_type : InsulationClasses \cup {"Z9"},
                     wrap : { {}, {"metal_wrap_Z"} } ],
      layout : Layouts \cup {"stacked"},
      bundle_count : 0..1,
      mount : [ clamp_spacing_m : 0..1 ],
      context : [ jurisdiction : {"BY"} ] ]

ApiBodies ==
    FullBodies
        \cup { Drop(b, "bundle_count") : b \in FullBodies }
        \cup { Drop(b, "DN") : b \in FullBodies }

ApiStores ==
    [ rows : { SeedRows, SeedRows \cup {StoreRow(OpenRule, NullDate)} },
      available : BOOLEAN ]

ApiInit ==
    /\ EngineIdle
    /\ ServerIdle
    /\ store \in ApiStores
    /\ invocations \in { <<Received(b, FALSE)>> : b \in ApiBodies }

ApiSpec == ApiInit /\ [][ApiNext]_vars

(***************************************************************************)
(* FaultSpec: one invocation with a body inside the declared ranges; the   *)
(* store holds up to MaxStore rows, among them rows whose result lacks     *)
(* fields or carries unusual values, a row of an approval without url and  *)
(* a row whose result_json is null; the store may be unavailable.          *)
(***************************************************************************)
\* most rows of the rules table
MaxStore == 3

FaultCatalogue ==
    { StoreRow(AbpRule, Tomorrow), StoreRow(MlarRule, NullDate),
      StoreRow(OpenRule, NullDate), StoreRow(NoStatusRule, NullDate),
      StoreRow(NegativeRule, NullDate), StoreRow(FloorRule, Tomorrow),
      StoreRow(NoUrlRule, NullDate), StoreRow(NullResultRule, NullDate) }

FaultBodies ==
    [ material : {"stainless_steel"},
      DN : 1..MaxDN,
      insulation : [ class_type : {"A2"},
                     wrap : SUBSET {"metal_wrap_Z", "metal_wrap_Y"} ],
      layout : {"parallel"},
      bundle_count : {1},
      mount : [ clamp_spacing_m : {1} ],
      context : [ jurisdiction : Jurisdictions ] ]

FaultStores ==
    [ rows : { S \in SUBSET FaultCatalogue : Cardinality(S) <= MaxStore },
      available : BOOLEAN ]

FaultInit ==
    /\ EngineIdle
    /\ ServerIdle
    /\ store \in FaultStores
    /\ invocations \in { <<Received(b, d)>> : b \in FaultBodies, d \in BOOLEAN }

FaultSpec == FaultInit /\ [][ApiNext]_vars

(***************************************************************************)
(* ConcSpec: Concurrent invocations run interleaved on one store; two rows *)
(* of the store have the same priority.                                    *)
(***************************************************************************)
\* invocations in flight at the same time
Concurrent == 2

ConcBodies ==
    [ material : Materials,
      DN : {1, MaxDN},
      insulation : [ class_type : {"A2"}, wrap : { {"metal_wrap_Z"} } ],
      layout : {"parallel"},
      bundle_count : {1},
      mount : [ clamp_spacing_m : {1} ],
      context : [ jurisdiction : {"BY"} ] ]

ConcStores ==
    [ rows : { SeedRows \cup { StoreRow(OpenRule, NullDate), StoreRow(TieRule, NullDate) } },
      available : BOOLEAN ]

ConcInit ==
    /\ EngineIdle
    /\ ServerIdle
    /\ store \in ConcStores
    /\ invocations \in [ 1..Concurrent -> { Received(b, d) : b \in ConcBodies,
                                                           d \in BOOLEAN } ]

ConcSpec == ConcInit /\ [][ApiNext]_vars

(***************************************************************************)
(* Claims about the endpoint.                                              *)
(***************************************************************************)
Rejected(inv) == inv.pc = "done" /\ inv.outcome.status_code = 422

Answered(inv) == inv.pc = "done" /\ inv.outcome.status_code = 200

Failed(inv) == inv.pc = "done" /\ inv.outcome.status_code = 500

NonPositiveField(body) ==
    \/ "DN" \in DOMAIN body /\ body.DN <= 0
    \/ Get(body, "bundle_count", 1) < 1
    \/ body.mount.clamp_spacing_m <= 0

\* C11: a request with DN <= 0, bundle_count < 1 or clamp_spacing_m <= 0 is
\* rejected with a validation error before any rule is loaded or evaluated,
\* and no response is produced for it.
C11_NonPositiveRejected ==
    \A i \in DOMAIN invocations :
        NonPositiveField(invocations[i].body) =>
            invocations[i].pc = "received" \/ Rejected(invocations[i])

DeclaredMaterials == {"stainless_steel", "copper", "plastic", "steel", "cast_iron"}

DeclaredClasses == {"A1", "A2", "B", "C", "D", "E", "F"}

DeclaredLayouts == {"parallel", "bundled", "single"}

OutsideEnumerations(body) ==
    \/ body.material \notin DeclaredMaterials
    \/ body.insulation.class_type \notin DeclaredClasses
    \/ body.layout \notin DeclaredLayouts

\* C12: a request whose material, insulation class or layout is outside the
\* declared enumerations fails validation before rule loading and never reaches
\* rule evaluation or the MLAR fallback.
C12_OutsideEnumerationRejected ==
    \A i \in DOMAIN invocations :
        OutsideEnumerations(invocations[i].body) =>
            invocations[i].pc = "received" \/ Rejected(invocations[i])

\* C13: when the rule store fails, or when the evaluation of any one loaded
\* approval rule raises (also a rule that does not match the request), the
\* invocation ends with HTTP 500 and carries no response: neither the MLAR
\* fallback nor the hard-floor response takes the place of the error.
C13_FailureIsInternalError ==
    \A i \in DOMAIN invocations :
        LET inv == invocations[i] IN
        (inv.pc = "done" /\ inv.request # None
            /\ (~store.available \/ evaluation_raises(inv.rules))) =>
            /\ inv.outcome.status_code = 500
            /\ "response" \notin DOMAIN inv.outcome

\* a loaded rule that does not match the request raises, next to one that matches
C13_Witness ==
    \E i \in DOMAIN invocations :
        LET inv == invocations[i] IN
        /\ Failed(inv)
        /\ store.available
        /\ \E k \in DOMAIN inv.rules :
              /\ evaluate_raises(inv.rules[k])
              /\ ~ConditionsHold(inv.rules[k], inv.request)
        /\ \E k \in DOMAIN inv.rules :
              /\ ApprovalLinked(inv.rules[k])
              /\ ~evaluate_raises(inv.rules[k])
              /\ ConditionsHold(inv.rules[k], inv.request)

WellFormedRequest(body) ==
    /\ RequiredFields \subseteq DOMAIN body
    /\ ~NonPositiveField(body)
    /\ ~OutsideEnumerations(body)

\* a row the tables accept: result_json is a JSON object, and a linked approval
\* has one of the three types and a number; approvals.url may be NULL
schema_valid(rule) ==
    /\ rule.result_json # JsonNull
    /\ ApprovalLinked(rule) =>
          /\ rule.approval_type \in {"AbP", "AbZ", "ETA"}
          /\ rule.approval_number # NoneStr

\* C14: for a well-formed request and a loaded list of well-formed rules (the
\* empty list included) the invocation returns a response and never an error.
C14_WellFormedNeverFails ==
    \A i \in DOMAIN invocations :
        LET inv == invocations[i] IN
        (inv.pc = "done" /\ store.available /\ WellFormedRequest(inv.body)
            /\ \A k \in DOMAIN inv.rules : schema_valid(inv.rules[k])) =>
            Answered(inv)

StatusLiterals == {"zulässig", "bedingt zulässig", "nicht zulässig", "default"}

\* C15: the status of every returned response is one of the four literals
\* "zulässig", "bedingt zulässig", "nicht zulässig", "default", also when a
\* matching rule's result carries no status.
C15_StatusIsOneOfFour ==
    \A i \in DOMAIN invocations :
        Answered(invocations[i]) =>
            invocations[i].outcome.response.status \in StatusLiterals

\* C16: min_clearance_mm of every returned response is a non-negative integer,
\* whatever min_clearance_mm the matching rules' results carry.
C16_ClearanceNonNegative ==
    \A i \in DOMAIN invocations :
        Answered(invocations[i]) =>
            invocations[i].outcome.response.min_clearance_mm \in Nat

HardFloorValues(resp) ==
    resp.min_clearance_mm = 100 /\ resp.status = "nicht zulässig"

\* C17: the sources of a returned response are empty if and only if the
\* response is min_clearance_mm = 100 with status "nicht zulässig".
C17_EmptySourcesIffFloor ==
    \A i \in DOMAIN invocations :
        Answered(invocations[i]) =>
            LET resp == invocations[i].outcome.response
            IN  resp.sources = <<>> <=> HardFloorValues(resp)

\* C17, amended: every returned response has at least one source; a response
\* of 100 mm, "nicht zulässig" is returned only when a matching approval rule's
\* result carries these values.
C17_EveryResponseHasSource ==
    \A i \in DOMAIN invocations :
        Answered(invocations[i]) =>
            LET inv == invocations[i]
                resp == inv.outcome.response
            IN  /\ resp.sources # <<>>
                /\ HardFloorValues(resp) =>
                      \E k \in DOMAIN inv.rules :
                          /\ ApprovalLinked(inv.rules[k])
                          /\ ConditionsHold(inv.rules[k], inv.request)
                          /\ RuleClearance(inv.rules[k]) = 100
                          /\ RuleStatus(inv.rules[k]) = "nicht zulässig"

\* a response of 100 mm, "nicht zulässig" that cites its approval
C17_Witness ==
    \E i \in DOMAIN invocations :
        /\ Answered(invocations[i])
        /\ HardFloorValues(invocations[i].outcome.response)
        /\ Len(invocations[i].outcome.response.sources) >= 1

\* no loaded rule, approval-linked or not, has all its conditions hold
NoRuleMatches(inv) ==
    \A k \in DOMAIN inv.rules : ~ConditionsHold(inv.rules[k], inv.request)

\* no loaded approval-linked rule has all its conditions hold
NoApprovalMatches(inv) ==
    \A k \in DOMAIN inv.rules :
        ApprovalLinked(inv.rules[k]) => ~ConditionsHold(inv.rules[k], inv.request)

HardFloor(resp) == HardFloorValues(resp) /\ resp.sources = <<>>

MlarDefault(resp) ==
    /\ resp.min_clearance_mm = 50
    /\ resp.status = "default"
    /\ resp.conditions_unmet = <<>>
    /\ Len(resp.sources) = 1
    /\ resp.sources[1].type = "MLAR"

\* C18: when no rule of any kind in the candidate list matches the request,
\* the invocation returns, without error, min_clearance_mm = 100, status
\* "nicht zulässig" and an empty source list.
C18_NoRuleGivesHardFloor ==
    \A i \in DOMAIN invocations :
        LET inv == invocations[i] IN
        (inv.pc = "done" /\ store.available /\ NoRuleMatches(inv)) =>
            Answered(inv) /\ HardFloor(inv.outcome.response)

\* C18, amended: when no rule of any kind in the candidate list matches the
\* request, the invocation returns the MLAR default (50 mm, "default", one MLAR
\* source), unless the evaluation of a loaded approval rule raises, which ends
\* it with HTTP 500; the 100 mm response is not returned.
C18_NoRuleGivesMlarDefault ==
    \A i \in DOMAIN invocations :
        LET inv == invocations[i] IN
        (inv.pc = "done" /\ store.available /\ NoRuleMatches(inv)) =>
            IF evaluation_raises(inv.rules)
            THEN Failed(inv)
            ELSE Answered(inv) /\ MlarDefault(inv.outcome.response)

\* rules were loaded, none of them matches, and the MLAR default is returned
C18_Witness ==
    \E i \in DOMAIN invocations :
        LET inv == invocations[i] IN
        /\ Answered(inv)
        /\ inv.rules # <<>>
        /\ NoRuleMatches(inv)
        /\ MlarDefault(inv.outcome.response)

\* C19: the hard-floor response (100 mm, "nicht zulässig", no sources) is
\* returned only when no approval rule matched and the MLAR fallback is
\* unavailable; _get_mlar_fallback is available for every request, so no
\* invocation returns the hard-floor response.
C19_HardFloorNeverReturned ==
    \A i \in DOMAIN invocations :
        LET inv == invocations[i] IN
        /\ inv.request # None => get_mlar_fallback(inv.request) # None
        /\ Answered(inv) =>
              /\ ~HardFloor(inv.outcome.response)
              /\ inv.outcome.response.notes #
                    "Keine anwendbare Brandschutzregel für diese Konfiguration gefunden. Bitte Einzelfallprüfung durchführen."

\* no approval rule matches although a rule without approval does, outside
\* Bavaria, and the answer is the MLAR default
C19_Witness ==
    \E i \in DOMAIN invocations :
        LET inv == invocations[i] IN
        /\ Answered(inv)
        /\ NoApprovalMatches(inv)
        /\ ~NoRuleMatches(inv)
        /\ inv.request.context.jurisdiction = "BW"
        /\ MlarDefault(inv.outcome.response)

\* what the invocation returns when it runs alone on the store
AloneOutcomes(inv) ==
    IF store.available
    THEN { evaluate_and_respond(inv.request, l, inv.debug) :
               l \in load_matching_rules(store.rows, inv.request) }
    ELSE { on_exception(inv.request, inv.debug) }

ReturnsAsAlone ==
    \A i \in DOMAIN invocations :
        LET inv == invocations[i] IN
        (inv.pc = "done" /\ inv.request # None) => inv.outcome \in AloneOutcomes(inv)

\* C20: no step of an invocation writes the rule store, and under every
\* interleaving of the invocations in flight each one returns what it returns
\* when it runs alone on that store.
C20_InterleavingIndependent ==
    /\ []ReturnsAsAlone
    /\ [][store' = store]_vars

\* two invocations with different requests ran to their end with different
\* answers, the first one loading its rules after the second had returned
C20_Witness ==
    /\ Len(invocations) >= 2
    /\ invocations[1].pc = "loaded"
    /\ Answered(invocations[2])
    /\ invocations[1].request # invocations[2].request
    /\ invocations[1].rules # invocations[2].rules

(***************************************************************************)
(* StoreSpec: one invocation on a store whose rows differ in scope, in      *)
(* their validity window and in the validity of the linked approval; one    *)
(* row has a material whitelist of two entries.                             *)
(***************************************************************************)
Yesterday == <<1>>

\* a rule of another scope
WallRule ==
    [ id |-> 12, approval_id |-> 5, scope |-> "pipe_to_wall", priority |-> 90,
      approval_type |-> "AbZ", approval_number |-> "Z-19.17-1194",
      approval_url |-> "https://www.dibt.de/de/zulassungen/z-19-17-1194",
      conditions_json |-> NoConditions,
      result_json |-> [ min_clearance_mm |-> 80, status |-> "zulässig",
                        must_have |-> <<"metal_wrap_Y">>,
                        notes |-> "Wanddurchführung" ] ]

\* a rule whose valid_from lies ahead
LaterRule ==
    [ id |-> 13, approval_id |-> 7, scope |-> "pipe_to_pipe", priority |-> 60,
      approval_type |-> "AbP", approval_number |-> "ABP-2027-INOX-002",
      approval_url |-> "https://www.dibt.de/de/zulassungen/abp-2027-inox-002",
      conditions_json |-> NoConditions,
      result_json |-> [ min_clearance_mm |-> 40, status |-> "bedingt zulässig",
                        notes |-> "gültig ab 2027" ] ]

\* a rule of an approval whose valid_to has passed
LapsedRule ==
    [ id |-> 14, approval_id |-> 8, scope |-> "pipe_to_pipe", priority |-> 55,
      approval_type |-> "ETA", approval_number |-> "ETA-09/0112",
      approval_url |-> "https://www.dibt.de/de/zulassungen/eta-09-0112",
      conditions_json |-> [ DN_max |-> 2 ],
      result_json |-> [ min_clearance_mm |-> 70, status |-> "zulässig",
                        notes |-> "Zulassung abgelaufen" ] ]

\* a row of rules joined with its approval: rules.valid_from, rules.valid_to
\* and approvals.valid_to
DatedRow(rule, valid_from, valid_to, approval_valid_to) ==
    StoreRow(rule, valid_to) @@ ("valid_from" :> valid_from)
                             @@ ("approval_valid_to" :> approval_valid_to)

StoreCatalogue ==
    { DatedRow(AbpRule, Yesterday, Tomorrow, Tomorrow),
      DatedRow(MlarRule, Yesterday, NullDate, NullDate),
      DatedRow(OpenRule, Yesterday, NullDate, NullDate),
      DatedRow(StrictRule, Yesterday, NullDate, NullDate),
      DatedRow(FloorRule, Yesterday, Yesterday, NullDate),
      DatedRow(WallRule, Yesterday, NullDate, NullDate),
      DatedRow(LaterRule, Tomorrow, NullDate, NullDate),
      DatedRow(LapsedRule, Yesterday, NullDate, Yesterday) }

StoreBodies ==
    [ material : Materials,
      DN : 1..MaxDN,
      insulation : [ class_type : {"A2"}, wrap : { {}, {"metal_wrap_Z"} } ],
      layout : {"parallel"},
      bundle_count : {1},
      mount : [ clamp_spacing_m : {1} ],
      context : [ jurisdiction : {"BY"} ] ]

StoreInit ==
    /\ EngineIdle
    /\ ServerIdle
    /\ store \in [ rows : { S \in SUBSET StoreCatalogue : Cardinality(S) <= MaxStore },
                   available : {TRUE} ]
    /\ invocations \in { <<Received(b, FALSE)>> : b \in StoreBodies }

StoreSpec == StoreInit /\ [][ApiNext]_vars

\* the rows of the right scope that have not expired
Eligible(rows) ==
    { row \in rows : /\ row.scope = "pipe_to_pipe"
                     /\ (row.valid_to = NullDate \/ row.valid_to[1] > Now) }

\* what the engine answers on the rows, none of them filtered out
UnfilteredOutcomes(inv, rows) ==
    { evaluate_and_respond(inv.request, l, inv.debug) :
          l \in sql_order_by_priority({ select_columns(row) : row \in rows }) }

\* C21: the material and DN filter of the query never excludes an eligible
\* rule that _evaluate_rule reports as matching, also when material_in has
\* several entries: the response on the loaded list is the response on the
\* list of all pipe_to_pipe rules that have not expired.
C21_PrefilterIsOnlyPerformance ==
    \A i \in DOMAIN invocations :
        LET inv == invocations[i] IN
        (inv.pc = "done" /\ store.available /\ inv.request # None) =>
            /\ inv.outcome \in UnfilteredOutcomes(inv, Eligible(store.rows))
            /\ \A row \in Eligible(store.rows) :
                  evaluate_rule(select_columns(row), inv.request).matches =>
                      \E k \in DOMAIN inv.rules : inv.rules[k] = select_columns(row)

(***************************************************************************)
(* PrioSpec: one invocation on stores that hold the same rules under every  *)
(* assignment of priorities.                                               *)
(***************************************************************************)
Priorities == {10, 50, 100}

\* the rows with the priorities the assignment gives them
Reprioritised(rows, assignment) ==
    { [ row EXCEPT !.priority = assignment[row] ] : row \in rows }

PrioCatalogue ==
    { StoreRow(AbpRule, Tomorrow), StoreRow(OpenRule, NullDate),
      StoreRow(TieRule, NullDate) }

PrioStores ==
    UNION { { [ rows |-> Reprioritised(S, assignment), available |-> TRUE ] :
                assignment \in [ S -> Priorities ] } : S \in SUBSET PrioCatalogue }

PrioBodies ==
    [ material : {"stainless_steel"},
      DN : 1..MaxDN,
      insulation : [ class_type : {"A2"}, wrap : { {}, {"metal_wrap_Z"} } ],
      layout : {"parallel"},
      bundle_count : {1},
      mount : [ clamp_spacing_m : {1} ],
      context : [ jurisdiction : {"BY"} ] ]

PrioInit ==
    /\ EngineIdle
    /\ ServerIdle
    /\ store \in PrioStores
    /\ invocations \in { <<Received(b, FALSE)>> : b \in PrioBodies }

PrioSpec == PrioInit /\ [][ApiNext]_vars

\* the responses to the request on the stored rules under any priorities
ResponsesUnderAnyPriority(inv) ==
    UNION { { compute_clearance(inv.request, l, inv.debug) :
                  l \in load_matching_rules(Reprioritised(store.rows, assignment),
                                            inv.request) } :
            assignment \in [ store.rows -> Priorities ] }

\* C22: changing only the priorities of the stored rules never changes
\* min_clearance_mm, status or notes of the response to a request.
C22_PriorityNeverMatters ==
    \A i \in DOMAIN invocations :
        Answered(invocations[i]) =>
            \A other \in ResponsesUnderAnyPriority(invocations[i]) :
                LET resp == invocations[i].outcome.response
                IN  /\ other.min_clearance_mm = resp.min_clearance_mm
                    /\ other.status = resp.status
                    /\ other.notes = resp.notes

\* the matching approval rules with the largest clearance agree on status and notes
StrictestAgree(inv) ==
    LET results == approval_results(inv.rules, inv.request)
    IN  \A a, b \in DOMAIN results :
            (/\ results[a].min_clearance_mm = results[b].min_clearance_mm
             /\ \A c \in DOMAIN results :
                    results[c].min_clearance_mm <= results[a].min_clearance_mm)
            => /\ results[a].status = results[b].status
               /\ results[a].notes = results[b].notes

\* C22, amended: changing only the priorities of the stored rules never
\* changes min_clearance_mm; it changes status and notes only when several
\* matching approval rules tie on the largest clearance and differ in them.
C22_PriorityOnlyBreaksTies ==
    \A i \in DOMAIN invocations :
        Answered(invocations[i]) =>
            \A other \in ResponsesUnderAnyPriority(invocations[i]) :
                LET resp == invocations[i].outcome.response
                IN  /\ other.min_clearance_mm = resp.min_clearance_mm
                    /\ StrictestAgree(invocations[i]) =>
                          /\ other.status = resp.status
                          /\ other.notes = resp.notes

\* the rule that decides has a lower priority than another matching rule
C22_Witness ==
    \E i \in DOMAIN invocations :
        LET inv == invocations[i] IN
        /\ Answered(inv)
        /\ StrictestAgree(inv)
        /\ \E a, b \in DOMAIN inv.rules :
              /\ a < b
              /\ inv.rules[a].priority > inv.rules[b].priority
              /\ ApprovalLinked(inv.rules[a]) /\ ConditionsHold(inv.rules[a], inv.request)
              /\ ApprovalLinked(inv.rules[b]) /\ ConditionsHold(inv.rules[b], inv.request)
              /\ RuleClearance(inv.rules[a]) < RuleClearance(inv.rules[b])
              /\ inv.outcome.response.min_clearance_mm = RuleClearance(inv.rules[b])
              /\ inv.outcome.response.notes = RuleNotes(inv.rules[b])

(***************************************************************************)
(* Claims about the engine, continued.                                     *)
(***************************************************************************)
\* C23: with debug = true every response carries a debug_info that is not
\* null, whose rules_loaded is the number of candidate rules, approval-linked
\* or not, whose approval_matches is the number of approval-linked rules that
\* match (0 on the fallback path) and whose rules is the candidate list.
C23_DebugTrace ==
    debug =>
        \A resp \in Responses :
            /\ resp.debug_info # None
            /\ resp.debug_info.rules_loaded = Len(rules)
            /\ resp.debug_info.approval_matches = Len(Matching)
            /\ resp.debug_info.rules = rules
            /\ resp.status = "default" => resp.debug_info.approval_matches = 0

\* a debug run on the fallback path over a list that holds a rule without
\* approval next to an approval rule that does not match
C23_Witness ==
    /\ Done
    /\ debug
    /\ Matching = <<>>
    /\ \E a, b \in DOMAIN rules : ~ApprovalLinked(rules[a]) /\ ApprovalLinked(rules[b])
    /\ responses[1].status = "default"
    /\ responses[1].debug_info.rules_loaded = Len(rules)
    /\ responses[1].debug_info.approval_matches = 0

\* the condition kinds the rule specifies and the request violates
ViolatedConditions(rule, req) ==
    LET c == rule.conditions_json
    IN  { k \in DOMAIN c :
            \/ k = "material_in" /\ req.material \notin c[k]
            \/ k = "DN_max" /\ req.DN > c[k]
            \/ k = "insulation_class_in" /\ req.insulation.class_type \notin c[k]
            \/ k = "layout_in" /\ req.layout \notin c[k]
            \/ k = "bundle_count_max" /\ req.bundle_count > c[k]
            \/ k = "clamp_spacing_m_max" /\ req.mount.clamp_spacing_m > c[k]
            \/ k = "requires_wrap" /\ \E w \in c[k] : w \notin req.insulation.wrap }

\* C24: _evaluate_rule checks every condition kind even after one has failed
\* and records one reason per failing condition: the reasons are as many as
\* the specified conditions the request violates, no reason occurs twice, and
\* matches is true exactly when there is no reason.
C24_OneReasonPerFailure ==
    \A i \in DOMAIN evaluation :
        LET result == evaluation[i] IN
        /\ Len(result.reasons) = Cardinality(ViolatedConditions(rules[1], request))
        /\ Cardinality({ result.reasons[k] : k \in DOMAIN result.reasons })
               = Len(result.reasons)
        /\ result.matches <=> result.reasons = <<>>

\* the material fails first, and all six conditions after it fail too
C24_Witness ==
    /\ evaluation # <<>>
    /\ "material_in" \in ViolatedConditions(rules[1], request)
    /\ Cardinality(ViolatedConditions(rules[1], request)) = 7
    /\ Len(evaluation[1].reasons) = 7
    /\ ~evaluation[1].matches

(***************************************************************************)
(* Claims about the rule store.                                            *)
(***************************************************************************)
SourcesOf(resp) == { resp.sources[k] : k \in DOMAIN resp.sources }

RowSource(row) == ClearanceSource(select_columns(row), row.result_json)

\* C25: a rule whose valid_to has passed, or whose scope is not pipe_to_pipe,
\* is never a candidate and contributes nothing to a response, also when all
\* its conditions hold for the request: the answer is the one the store
\* gives without these rows.
C25_OnlyEligibleRulesCount ==
    \A i \in DOMAIN invocations :
        LET inv == invocations[i] IN
        (inv.request # None /\ store.available) =>
            /\ \A k \in DOMAIN inv.rules :
                  /\ inv.rules[k].scope = "pipe_to_pipe"
                  /\ inv.rules[k].valid_to = NullDate \/ inv.rules[k].valid_to[1] > Now
            /\ inv.pc = "done" =>
                  /\ inv.outcome \in
                        { evaluate_and_respond(inv.request, l, inv.debug) :
                              l \in load_matching_rules(Eligible(store.rows), inv.request) }
                  /\ Answered(inv) =>
                        \A row \in store.rows \ Eligible(store.rows) :
                            RowSource(row) \notin SourcesOf(inv.outcome.response)

\* an expired rule and a rule of another scope, both stricter than the answer
\* and with all conditions holding, are in the store
C25_Witness ==
    \E i \in DOMAIN invocations :
        LET inv == invocations[i] IN
        /\ Answered(inv)
        /\ \E row \in store.rows :
              /\ row.scope = "pipe_to_pipe" /\ row.valid_to = Yesterday
              /\ ApprovalLinked(row) /\ ConditionsHold(row, inv.request)
              /\ RuleClearance(row) > inv.outcome.response.min_clearance_mm
        /\ \E row \in store.rows :
              /\ row.scope # "pipe_to_pipe"
              /\ ApprovalLinked(row) /\ ConditionsHold(row, inv.request)
              /\ RuleClearance(row) > inv.outcome.response.min_clearance_mm
        /\ inv.rules # <<>>

Dates == {NullDate, Yesterday, Tomorrow}

\* C28: whether a rule is loaded depends on its scope and its valid_to, not on
\* its valid_from nor on the validity of the linked approval: a pipe_to_pipe
\* rule that has not expired and matches the request is loaded and evaluated,
\* bounds min_clearance_mm from below and appears in the sources, also when
\* its valid_from lies ahead or its approval has expired.
C28_OnlyScopeAndValidToDecide ==
    \A i \in DOMAIN invocations :
        LET inv == invocations[i] IN
        (inv.request # None /\ store.available) =>
            \A row \in store.rows :
                /\ \A from, to \in Dates :
                      sql_where([ row EXCEPT !.valid_from = from,
                                             !.approval_valid_to = to ], inv.request)
                          = sql_where(row, inv.request)
                /\ ( /\ Answered(inv)
                     /\ row \in Eligible(store.rows)
                     /\ ApprovalLinked(row)
                     /\ ConditionsHold(row, inv.request)
                     /\ ( \/ "material_in" \notin DOMAIN row.conditions_json
                          \/ Cardinality(row.conditions_json.material_in) = 1 ) )
                   => /\ \E k \in DOMAIN inv.rules : inv.rules[k] = select_columns(row)
                      /\ inv.outcome.response.min_clearance_mm >= RuleClearance(row)
                      /\ RowSource(row) \in SourcesOf(inv.outcome.response)

\* a rule that is not yet valid and a rule of an expired approval are both
\* cited, and the latter decides the clearance
C28_Witness ==
    \E i \in DOMAIN invocations :
        LET inv == invocations[i] IN
        /\ Answered(inv)
        /\ \E early, lapsed \in store.rows :
              /\ early.valid_from = Tomorrow
              /\ lapsed.approval_valid_to = Yesterday
              /\ RowSource(early) \in SourcesOf(inv.outcome.response)
              /\ RowSource(lapsed) \in SourcesOf(inv.outcome.response)
              /\ inv.outcome.response.min_clearance_mm = RuleClearance(lapsed)
              /\ inv.outcome.response.notes = RuleNotes(lapsed)

\* all orders of the elements of a set
RECURSIVE Orders(_)
Orders(S) ==
    IF S = {} THEN { <<>> }
    ELSE UNION { { <<x>> \o l : l \in Orders(S \ {x}) } : x \in S }

\* the candidate list in any order
Reorderings(rule_list) == Orders({ rule_list[k] : k \in DOMAIN rule_list })

\* several matching approval rules have the largest clearance
TieOnStrictest ==
    \E a, b \in DOMAIN Matching :
        /\ a # b
        /\ RuleClearance(Matching[a]) = RuleClearance(Matching[b])
        /\ \A c \in DOMAIN Matching :
              RuleClearance(Matching[c]) <= RuleClearance(Matching[a])

\* C26: for every permutation of the candidate list min_clearance_mm, the set
\* of sources and the set of conditions_unmet entries are the same; status and
\* notes are the same too unless several matching rules tie on the largest
\* clearance.
C26_OrderOnlyBreaksTies ==
    \A resp \in Responses :
        \A l \in Reorderings(rules) :
            LET other == compute_clearance(request, l, debug)
            IN  /\ other.min_clearance_mm = resp.min_clearance_mm
                /\ SourcesOf(other) = SourcesOf(resp)
                /\ { other.conditions_unmet[k] : k \in DOMAIN other.conditions_unmet }
                       = { resp.conditions_unmet[k] : k \in DOMAIN resp.conditions_unmet }
                /\ ~TieOnStrictest =>
                       other.status = resp.status /\ other.notes = resp.notes

\* two matching rules tie on the largest clearance: another order of the list
\* gives another status and another order of the sources
C26_Witness ==
    /\ Done
    /\ TieOnStrictest
    /\ \E l \in Reorderings(rules) :
          LET other == compute_clearance(request, l, debug)
          IN  /\ other.status # responses[1].status
              /\ other.sources # responses[1].sources
              /\ other.min_clearance_mm = responses[1].min_clearance_mm

\* the response stems from matching approval rules, not from the fallback
OnApprovalPath(resp) == resp.sources # <<>> /\ resp.sources[1].type # "MLAR"

RequiresWrap(rule) == Get(rule.conditions_json, "requires_wrap", {})

\* the metal_wrap_ entries of the rule's must_have
MetalMustHave(rule) == { w \in RuleMustHave(rule) : startswith_metal_wrap(w) }

\* C27: on the approval path conditions_unmet is not empty only if a matching
\* rule has a metal_wrap_ must_have entry outside its own requires_wrap; if the
\* must_have of every matching rule lies within its requires_wrap,
\* conditions_unmet is empty.
C27_UnmetOnlyBeyondRequiresWrap ==
    \A resp \in Responses :
        OnApprovalPath(resp) =>
            /\ resp.conditions_unmet # <<>> =>
                  \E rule \in MatchingSet : ~(MetalMustHave(rule) \subseteq RequiresWrap(rule))
            /\ (\A k \in DOMAIN rules :
                    IsMatch(rules[k]) => RuleMustHave(rules[k]) \subseteq RequiresWrap(rules[k]))
               => resp.conditions_unmet = <<>>

\* the seeded approval rule matches, alone among the approval rules, and
\* nothing is unmet
C27_Witness ==
    /\ Done
    /\ MatchingSet = {AbpRule}
    /\ OnApprovalPath(responses[1])
    /\ MetalMustHave(AbpRule) # {}
    /\ responses[1].conditions_unmet = <<>>

\* a matching rule asks for a wrap it does not require, and it is unmet
C27_WitnessUnmet ==
    /\ Done
    /\ OnApprovalPath(responses[1])
    /\ responses[1].conditions_unmet # <<>>

(***************************************************************************)
(* The document service of server.py: upload_document, process_document    *)
(* and manual_process_documents.  A document id is the position of its      *)
(* upload; a file is known by its type and the number of pages with text.   *)
(***************************************************************************)
\* uploads, pages with text per file, runs of process_document per document
MaxUploads == 2

MaxPages == 2

MaxRuns == 2

\* int(os.environ.get('MAX_FILE_SIZE', 50000000))
MAX_FILE_SIZE == 50000000

FileSizes == {1, MAX_FILE_SIZE, MAX_FILE_SIZE + 1}

FileTypes == {"application/pdf", "text/plain"}

\* str(HTTPException(status_code, detail))
http_exception_str(status_code, detail) == ToString(status_code) \o ": " \o detail

\* except Exception as e: raise HTTPException(status_code=500, detail=str(e))
upload_except(detail) == [ status_code |-> 500, detail |-> detail ]

\* a run of process_document that asyncio.create_task or the manual script starts
NewRun(n) ==
    [ pc |-> "created", run |-> n, conn_ok |-> TRUE, sections |-> 0, inserted |-> 0,
      set_processing |-> FALSE, step_raised |-> FALSE ]

\* upload_document: size check, file write, INSERT INTO documents, create_task
UploadDocument ==
    /\ Len(uploads) < MaxUploads
    /\ \E size \in FileSizes, file_type \in FileTypes, pages \in 0..MaxPages,
          insert_ok \in BOOLEAN :
          LET doc_id == Len(uploads) + 1
              upload == [ size |-> size, file_type |-> file_type, pages |-> pages ]
          IN  IF size > MAX_FILE_SIZE
              THEN /\ uploads' = Append(uploads, upload @@
                          upload_except(http_exception_str(413, "File too large")))
                   /\ UNCHANGED <<documents, files, tasks>>
              ELSE /\ files' = files @@ (doc_id :> [ file_type |-> file_type,
                                                      pages |-> pages ])
                   /\ IF insert_ok
                      THEN /\ documents' = documents @@
                                  (doc_id :> [ processing_status |-> "pending",
                                               file_type |-> file_type,
                                               file_size |-> size ])
                           /\ tasks' = tasks @@ (doc_id :> NewRun(1))
                           /\ uploads' = Append(uploads, upload @@
                                  [ status_code |-> 200, document_id |-> doc_id,
                                    status |-> "uploaded" ])
                      ELSE /\ uploads' = Append(uploads, upload @@
                                  upload_except("INSERT INTO documents"))
                           /\ UNCHANGED <<documents, tasks>>
    /\ UNCHANGED <<request, rules, debug, responses, evaluation, store, invocations,
                   document_sections>>

\* UPDATE documents SET processing_status = ... WHERE id = $1
set_status(doc_id, status) ==
    [ documents EXCEPT ![doc_id].processing_status = status ]

Running(doc_id) ==
    doc_id \in DOMAIN tasks /\ tasks[doc_id].pc \notin {"returned", "raised"}

\* the connection of a run breaks: every later db.execute of the run raises
ConnectionLost ==
    /\ \E doc_id \in DOMAIN tasks :
          /\ Running(doc_id)
          /\ tasks[doc_id].conn_ok
          /\ tasks' = [ tasks EXCEPT ![doc_id].conn_ok = FALSE ]
    /\ UNCHANGED <<request, rules, debug, responses, evaluation, store, invocations,
                   documents, document_sections, files, uploads>>

\* pool.acquire(), then the first statement of the try block
BeginProcessing ==
    /\ \E doc_id \in DOMAIN tasks :
          /\ tasks[doc_id].pc = "created"
          /\ IF tasks[doc_id].conn_ok
             THEN /\ documents' = set_status(doc_id, "processing")
                  /\ tasks' = [ tasks EXCEPT ![doc_id].pc = "extract",
                                             ![doc_id].set_processing = TRUE ]
             ELSE /\ tasks' = [ tasks EXCEPT ![doc_id].pc = "except",
                                             ![doc_id].step_raised = TRUE ]
                  /\ UNCHANGED documents
    /\ UNCHANGED <<request, rules, debug, responses, evaluation, store, invocations,
                   document_sections, files, uploads>>

\* extract_text_from_pdf for a pdf, no sections otherwise
extract_sections(file) ==
    IF file.file_type = "application/pdf" THEN file.pages ELSE 0

\* reading the file, extracting the sections, the return on no sections
ExtractSections ==
    /\ \E doc_id \in DOMAIN tasks :
          /\ tasks[doc_id].pc = "extract"
          /\ LET sections == extract_sections(files[doc_id])
             IN  IF sections > 0
                 THEN /\ tasks' = [ tasks EXCEPT ![doc_id].pc = "insert",
                                                 ![doc_id].sections = sections ]
                      /\ UNCHANGED documents
                 ELSE IF tasks[doc_id].conn_ok
                 THEN /\ documents' = set_status(doc_id, "failed")
                      /\ tasks' = [ tasks EXCEPT ![doc_id].pc = "returned" ]
                 ELSE /\ tasks' = [ tasks EXCEPT ![doc_id].pc = "except",
                                                 ![doc_id].step_raised = TRUE ]
                      /\ UNCHANGED documents
    /\ UNCHANGED <<request, rules, debug, responses, evaluation, store, invocations,
                   document_sections, files, uploads>>

\* INSERT INTO document_sections for the next section: it raises on a broken
\* connection, on an anchor_id that is in the table already (UNIQUE) and
\* whenever the database rejects the row
InsertSection ==
    /\ \E doc_id \in DOMAIN tasks, accepted \in BOOLEAN :
          /\ tasks[doc_id].pc = "insert"
          /\ tasks[doc_id].inserted < tasks[doc_id].sections
          /\ LET section == [ document_id |-> doc_id,
                              page_number |-> tasks[doc_id].inserted + 1 ]
             IN  IF tasks[doc_id].conn_ok /\ accepted /\ section \notin document_sections
                 THEN /\ document_sections' = document_sections \cup {section}
                      /\ tasks' = [ tasks EXCEPT ![doc_id].inserted = @ + 1 ]
                 ELSE /\ tasks' = [ tasks EXCEPT ![doc_id].pc = "except",
                                                 ![doc_id].step_raised = TRUE ]
                      /\ UNCHANGED document_sections
    /\ UNCHANGED <<request, rules, debug, responses, evaluation, store, invocations,
                   documents, files, uploads>>

\* UPDATE ... 'completed' after the loop
CompleteDocument ==
    /\ \E doc_id \in DOMAIN tasks :
          /\ tasks[doc_id].pc = "insert"
          /\ tasks[doc_id].inserted = tasks[doc_id].sections
          /\ IF tasks[doc_id].conn_ok
             THEN /\ documents' = set_status(doc_id, "completed")
                  /\ tasks' = [ tasks EXCEPT ![doc_id].pc = "returned" ]
             ELSE /\ tasks' = [ tasks EXCEPT ![doc_id].pc = "except",
                                             ![doc_id].step_raised = TRUE ]
                  /\ UNCHANGED documents
    /\ UNCHANGED <<request, rules, debug, responses, evaluation, store, invocations,
                   document_sections, files, uploads>>

\* except Exception: UPDATE ... 'failed'; when this UPDATE raises too, the
\* exception leaves process_document
HandleException ==
    /\ \E doc_id \in DOMAIN tasks :
          /\ tasks[doc_id].pc = "except"
          /\ IF tasks[doc_id].conn_ok
             THEN /\ documents' = set_status(doc_id, "failed")
                  /\ tasks' = [ tasks EXCEPT ![doc_id].pc = "returned" ]
             ELSE /\ tasks' = [ tasks EXCEPT ![doc_id].pc = "raised" ]
                  /\ UNCHANGED documents
    /\ UNCHANGED <<request, rules, debug, responses, evaluation, store, invocations,
                   document_sections, files, uploads>>

\* manual_process_documents: process_document again for a 'failed' document
ManualProcess ==
    /\ \E doc_id \in DOMAIN documents :
          /\ documents[doc_id].processing_status = "failed"
          /\ ~Running(doc_id)
          /\ tasks[doc_id].run < MaxRuns
          /\ tasks' = [ tasks EXCEPT ![doc_id] = NewRun(tasks[doc_id].run + 1) ]
    /\ UNCHANGED <<request, rules, debug, responses, evaluation, store, invocations,
                   documents, document_sections, files, uploads>>

DocInit ==
    /\ EngineIdle
    /\ store = NoStore
    /\ invocations = <<>>
    /\ ServerIdle

DocNext ==
    \/ UploadDocument
    \/ ConnectionLost
    \/ BeginProcessing
    \/ ExtractSections
    \/ InsertSection
    \/ CompleteDocument
    \/ HandleException
    \/ ManualProcess

DocSpec == DocInit /\ [][DocNext]_vars

(***************************************************************************)
(* C29: the status lifecycle of a document.                                 *)
(***************************************************************************)
Ended(doc_id) == tasks[doc_id].pc \in {"returned", "raised"}

StatusOf(doc_id) == documents[doc_id].processing_status

AllSectionsInserted(doc_id) ==
    \A page \in 1..extract_sections(files[doc_id]) :
        [ document_id |-> doc_id, page_number |-> page ] \in document_sections

\* C29: every run of process_document that has ended has set the status to
\* 'processing' and has left it 'completed' or 'failed', never 'processing';
\* 'completed' only with every extracted section in document_sections, and
\* 'failed' whenever no section was extracted or a step raised.
C29_RunEndsCompletedOrFailed ==
    \A doc_id \in DOMAIN tasks :
        Ended(doc_id) =>
            /\ tasks[doc_id].set_processing
            /\ StatusOf(doc_id) \in {"completed", "failed"}
            /\ StatusOf(doc_id) = "completed" => AllSectionsInserted(doc_id)
            /\ (tasks[doc_id].step_raised \/ extract_sections(files[doc_id]) = 0)
                   => StatusOf(doc_id) = "failed"

(***************************************************************************)
(* C30: the answer to an upload that is too large.                          *)
(***************************************************************************)
Oversized(k) == uploads[k].size > MAX_FILE_SIZE

\* C30: an upload larger than MAX_FILE_SIZE is answered with 413, and it
\* leaves no file, no document row and no processing task.
C30_OversizedAnswered413 ==
    \A k \in 1..Len(uploads) :
        Oversized(k) =>
            /\ uploads[k].status_code = 413
            /\ k \notin DOMAIN files
            /\ k \notin DOMAIN documents
            /\ k \notin DOMAIN tasks

====
